---- MODULE Spec2Model ----
(***************************************************************************)
(* Model of DocEnhancer AI: the retrying Ollama client of main.py          *)
(* (enhance_text_with_ollama, check_ollama_connection), the text extractor *)
(* of processor.py (process_document), the Firestore save of main.py       *)
(* (save_to_firestore) and the session handling of main() / logout_user(). *)
(***************************************************************************)
EXTENDS Integers, Sequences, FiniteSets, TLC

(* ---------------- program constants (main.py:28-30, 46) ---------------- *)
MAX_RETRIES == 3
INITIAL_TIMEOUT == 30
TIMEOUT_BACKOFF_FACTOR == 2
PROBE_TIMEOUT == 5
START_WAIT == 3
RESTART_WAIT == 5

(* ---------------- bounds of the model ---------------------------------- *)
\* number of distinct input texts the model draws from
NumTexts == 2
\* number of distinct rewrites the backend can answer with
NumRewrites == 2

\* texts are identified by positive numbers; 0 stands for "no text"
Texts == 1..NumTexts
\* what message.content of a 2xx reply can be: a rewrite, or an input again
Contents == 1..(NumTexts + NumRewrites)

\* longest PDF the extractor is run on
MaxPages == 2
\* number of accounts
NumUsers == 2
\* cap on the number of save_to_firestore calls
MaxSaves == 3

VARIABLES
    \* --- enhance_text_with_ollama (main.py) ---
    pc,        \* position inside enhance_text_with_ollama
    text,      \* its argument
    attempt,   \* loop variable of `for attempt in range(MAX_RETRIES)`
    timeout,   \* local variable timeout
    log,       \* history: every probe, server start, request and sleep made
    result,    \* how the call ended: returned value or raised error
    \* --- process_document (processor.py) ---
    x_pc,      \* position inside process_document
    file,      \* its argument: name and, for a PDF, the kind of each page
    page,      \* index of the next page of reader.pages
    x_text,    \* local variable text (the accumulator)
    tmp_exists,\* does the file at tmp_path exist on disk
    x_result,  \* how the call ended
    \* --- Firestore (auth.py, main.py) ---
    users,     \* users/{uid}: its doc_count, or -1 when the document is absent
    documents, \* users/{uid}/documents: the set of document ids
    next_id,   \* the next auto-generated document id
    s_calls,   \* history: number of save_to_firestore calls made
    s_user,    \* user_id of the last save_to_firestore call
    s_ret,     \* its return value: a document id, or 0 for None
    \* --- st.session_state and the page of main() ---
    session_user,  \* st.session_state.user: a uid, or 0 when the key is absent
    enhanced_text, \* st.session_state.enhanced_text, or 0 when absent
    enhanced_from, \* history: the upload whose text enhanced_text rewrites
    uploaded_file, \* the file in the uploader, or 0
    offered,       \* did the last run render the enhanced view and download
    last_event     \* the event that caused the last run

evars == <<pc, text, attempt, timeout, log, result>>
xvars == <<x_pc, file, page, x_text, tmp_exists, x_result>>
fvars == <<users, documents, next_id, s_calls, s_user, s_ret>>
uvars == <<session_user, enhanced_text, enhanced_from, uploaded_file, offered,
           last_event>>

vars == <<evars, xvars, fvars, uvars>>

\* one entry of the history
Ev(kind, t, out, content) ==
    [ev |-> kind, t |-> t, out |-> out, content |-> content]

NoResult == [kind |-> "none", value |-> 0, exc |-> "", origin |-> 0]
Returned(v) == [kind |-> "return", value |-> v, exc |-> "", origin |-> 0]
\* an exception leaving the function: its class and the attempt (1-based)
\* whose request created the exception object
Raised(cls, k) == [kind |-> "raise", value |-> 0, exc |-> cls, origin |-> k]

\* outcomes of requests.get(.../api/tags, timeout=5)
ProbeOutcomes == {"200", "non200", "exc"}
\* outcomes of subprocess.Popen(["ollama", "serve"])
StartOutcomes == {"started", "failed"}
\* outcomes of lines 68-92, requests.post + raise_for_status +
\* json()["message"]["content"]:
\*   ok        a 2xx reply carrying a content
\*   transport post or raise_for_status raises (network, timeout, non-2xx)
\*   bad_json  a 2xx reply whose body is not JSON: response.json() raises
\*   other     a 2xx JSON reply without message.content: KeyError/TypeError
RequestOutcomes == {"ok", "transport", "bad_json", "other"}

\* the class response.json() raises on a body that is not JSON depends on the
\* installed requests: requests.exceptions.JSONDecodeError, a subclass of
\* RequestException (requests >= 2.27), or json.JSONDecodeError, a ValueError
JsonErrorClasses == {"requests.JSONDecodeError", "json.JSONDecodeError"}

\* `except requests.exceptions.RequestException` (line 94) matches the
\* classes of requests.exceptions; the builtin ConnectionError that line 66
\* raises is not one of them
IsRequestException(cls) ==
    cls \in {"requests.RequestException", "requests.JSONDecodeError"}

(* ---------------- enhance_text_with_ollama ----------------------------- *)
EnhanceCall(t) ==
    /\ pc = "idle"
    /\ pc' = "probe"
    /\ text' = t
    /\ attempt' = 0
    /\ timeout' = INITIAL_TIMEOUT
    /\ log' = <<>>
    /\ result' = NoResult
    /\ UNCHANGED <<xvars, fvars, uvars>>

\* faulty variant: additive instead of multiplicative backoff
NextTimeout_Additive(to) == to + INITIAL_TIMEOUT

\* the timeout after line 98
NextTimeout(to) == to * TIMEOUT_BACKOFF_FACTOR

\* faulty variant: the timeout is multiplied before the sleep is taken
RetrySleep_AfterBackoff(to) == NextTimeout(to) \div 2

\* the sleep of line 97: timeout * 0.5, taken before line 98 multiplies
RetrySleep(to) == to \div 2

\* is this the attempt on which line 95 re-raises
IsFinalAttempt(a) == a = MAX_RETRIES - 1

\* what the generic handler of lines 101-103 returns for the input t
DegradeValue(t) == t

\* faulty variant: the input is returned instead of the reply
SuccessValue_Input(t, c) == t

\* what line 92 returns
SuccessValue(t, c) == c

\* the exception line 66 raises when check_ollama_connection() is False
UnavailableError == "builtins.ConnectionError"

\* the two except clauses (lines 94-103) applied to an exception of class
\* cls raised in the try body, after the history entries evs were made
Except(cls, evs) ==
    IF IsRequestException(cls)
    THEN IF IsFinalAttempt(attempt)
         THEN /\ pc' = "done"
              /\ result' = Raised(cls, attempt + 1)
              /\ log' = log \o evs
              /\ UNCHANGED <<attempt, timeout>>
         ELSE /\ log' = log \o evs \o
                        <<Ev("sleep_retry", RetrySleep(timeout), "", 0)>>
              /\ timeout' = NextTimeout(timeout)
              /\ attempt' = attempt + 1
              \* `continue`: back to the loop head; line 105 when exhausted
              /\ IF attempt + 1 < MAX_RETRIES
                 THEN pc' = "probe" /\ UNCHANGED result
                 ELSE pc' = "done" /\ result' = Returned(text)
    ELSE /\ pc' = "done"
         /\ result' = Returned(DegradeValue(text))
         /\ log' = log \o evs \o <<Ev("st_error", 0, cls, 0)>>
         /\ UNCHANGED <<attempt, timeout>>

\* check_ollama_connection(), first requests.get (lines 45-48)
Probe(o) ==
    /\ pc = "probe"
    /\ LET e == <<Ev("probe", PROBE_TIMEOUT, o, 0)>>
       IN  CASE o = "200" ->
                  /\ pc' = "request"
                  /\ log' = log \o e
                  /\ UNCHANGED <<attempt, timeout, result>>
             [] o = "non200" -> Except(UnavailableError, e)
             [] o = "exc" ->
                  /\ pc' = "start"
                  /\ log' = log \o e
                  /\ UNCHANGED <<attempt, timeout, result>>
    /\ UNCHANGED text
    /\ UNCHANGED <<xvars, fvars, uvars>>

\* start_ollama_server() called from line 50, then the wait of line 52
StartServer(o) ==
    /\ pc = "start"
    /\ IF o = "started"
       THEN /\ pc' = "reprobe"
            /\ log' = log \o <<Ev("start", 0, o, 0),
                               Ev("sleep_start", START_WAIT, "", 0),
                               Ev("sleep_restart", RESTART_WAIT, "", 0)>>
            /\ UNCHANGED <<attempt, timeout, result>>
       ELSE Except(UnavailableError, <<Ev("start", 0, o, 0)>>)
    /\ UNCHANGED text
    /\ UNCHANGED <<xvars, fvars, uvars>>

\* check_ollama_connection(), second requests.get (lines 53-57)
Reprobe(o) ==
    /\ pc = "reprobe"
    /\ LET e == <<Ev("probe", PROBE_TIMEOUT, o, 0)>>
       IN  IF o = "200"
           THEN /\ pc' = "request"
                /\ log' = log \o e
                /\ UNCHANGED <<attempt, timeout, result>>
           ELSE Except(UnavailableError, e)
    /\ UNCHANGED text
    /\ UNCHANGED <<xvars, fvars, uvars>>

\* requests.post(..., timeout=timeout) and lines 91-92
Request(o, c) ==
    /\ pc = "request"
    /\ LET e == <<Ev("request", timeout, o, IF o = "ok" THEN c ELSE 0)>>
       IN  CASE o = "ok" ->
                  /\ pc' = "done"
                  /\ result' = Returned(SuccessValue(text, c))
                  /\ log' = log \o e
                  /\ UNCHANGED <<attempt, timeout>>
             [] o = "transport" -> Except("requests.RequestException", e)
             [] o = "bad_json" -> \E cls \in JsonErrorClasses : Except(cls, e)
             [] o = "other" -> Except("KeyError", e)
    /\ UNCHANGED text
    /\ UNCHANGED <<xvars, fvars, uvars>>

EnhanceNext ==
    \/ \E t \in Texts : EnhanceCall(t)
    \/ \E o \in ProbeOutcomes : Probe(o)
    \/ \E o \in StartOutcomes : StartServer(o)
    \/ \E o \in ProbeOutcomes : Reprobe(o)
    \/ \E o \in RequestOutcomes, c \in Contents : Request(o, c)

(* ---------------- process_document --------------------------------- *)
\* file names, as sequences of characters
Chars(n) ==
    CASE n = 1 -> <<"a", ".", "t", "x", "t">>
      [] n = 2 -> <<"b", ".", "d", "o", "c", "x">>
      [] n = 3 -> <<"c", ".", "p", "d", "f">>
      [] n = 4 -> <<"d", ".", "P", "D", "F">>
      [] n = 5 -> <<"e", ".", "p", "n", "g">>
      [] n = 6 -> <<"p", "d", "f">>
      [] n = 7 -> <<"g", ".", "p", "d", "f", ".", "b", "a", "k">>

Names == {Chars(n) : n \in 1..7}

\* str.endswith
EndsWith(s, suf) ==
    /\ Len(s) >= Len(suf)
    /\ SubSeq(s, Len(s) - Len(suf) + 1, Len(s)) = suf

SUFFIX_TXT == <<".", "t", "x", "t">>
SUFFIX_DOCX == <<".", "d", "o", "c", "x">>
SUFFIX_PDF == <<".", "p", "d", "f">>

\* the branch process_document takes (lines 13, 16, 20, 42)
Format(name) ==
    IF EndsWith(name, SUFFIX_TXT) THEN "txt"
    ELSE IF EndsWith(name, SUFFIX_DOCX) THEN "docx"
    ELSE IF EndsWith(name, SUFFIX_PDF) THEN "pdf"
    ELSE "unsupported"

PageKinds == {"text", "scanned"}
PageSeqs == UNION {[1..n -> PageKinds] : n \in 0..MaxPages}
Files == [name : Names, pages : PageSeqs]
NoFile == [name |-> <<>>, pages |-> <<>>]

XNoResult == [kind |-> "none", text |-> <<>>, cls |-> "", msg |-> <<>>]
XReturned(t) == [kind |-> "return", text |-> t, cls |-> "", msg |-> <<>>]
XRaised(e) == [kind |-> "raise", text |-> <<>>, cls |-> e.cls, msg |-> e.msg]

\* the exception of line 43
UnsupportedError(name) ==
    [cls |-> "ValueError", msg |-> <<"Unsupported file format: ">> \o name]
\* an exception of a parser, of the OCR or of the file system
LibraryError(what) == [cls |-> what, msg |-> <<what>>]
\* line 46: every exception leaves as a ValueError around str(e)
Wrap(e) ==
    [cls |-> "ValueError", msg |-> <<"Error processing document: ">> \o e.msg]

\* one chunk of extracted text
Chunk(src, i) == [src |-> src, page |-> i]

\* what the OCR fallback of lines 35-37 appends: every page of the file
OcrChunks(n) == [i \in 1..n |-> Chunk("ocr", i)]

\* the `finally` of lines 39-40
Unlink(exists) == FALSE

\* the state of the temporary file when lines 21-23 fail inside write():
\* delete=False keeps it, and the try/finally is not entered yet
AfterFailedWrite(exists) == TRUE

CallOutcomes(fmt) ==
    CASE fmt = "txt" -> {"ok", "decode_fail"}
      [] fmt = "docx" -> {"ok", "parse_fail"}
      [] fmt = "pdf" -> {"ok", "create_fail", "write_fail", "open_fail"}
      [] fmt = "unsupported" -> {"ok"}

\* process_document(file) up to the page loop
ProcessCall(f, o) ==
    /\ x_pc = "idle"
    /\ o \in CallOutcomes(Format(f.name))
    /\ file' = f
    /\ page' = 1
    /\ x_text' = <<>>
    /\ LET fmt == Format(f.name)
       IN  CASE fmt = "txt" ->
                  /\ x_pc' = "done"
                  /\ x_result' = IF o = "ok"
                                 THEN XReturned(<<Chunk("utf8", 0)>>)
                                 ELSE XRaised(Wrap(LibraryError("UnicodeDecodeError")))
                  /\ UNCHANGED tmp_exists
             [] fmt = "docx" ->
                  /\ x_pc' = "done"
                  /\ x_result' = IF o = "ok"
                                 THEN XReturned(<<Chunk("paragraphs", 0)>>)
                                 ELSE XRaised(Wrap(LibraryError("PackageNotFoundError")))
                  /\ UNCHANGED tmp_exists
             [] fmt = "pdf" ->
                  IF o = "ok"
                  THEN /\ x_pc' = "pages"
                       /\ tmp_exists' = TRUE
                       /\ x_result' = XNoResult
                  ELSE IF o = "create_fail"
                  THEN /\ x_pc' = "done"
                       /\ UNCHANGED tmp_exists
                       /\ x_result' = XRaised(Wrap(LibraryError("OSError")))
                  ELSE IF o = "write_fail"
                  THEN /\ x_pc' = "done"
                       /\ tmp_exists' = AfterFailedWrite(tmp_exists)
                       /\ x_result' = XRaised(Wrap(LibraryError("OSError")))
                  ELSE /\ x_pc' = "done"
                       /\ tmp_exists' = Unlink(TRUE)
                       /\ x_result' = XRaised(Wrap(LibraryError("PdfReadError")))
             [] fmt = "unsupported" ->
                  /\ x_pc' = "done"
                  /\ x_result' = XRaised(Wrap(UnsupportedError(f.name)))
                  /\ UNCHANGED tmp_exists
    /\ UNCHANGED <<evars, fvars, uvars>>

PageOutcomes(kind) ==
    IF kind = "text" THEN {"ok", "extract_fail"}
    ELSE {"ok", "extract_fail", "convert_fail", "ocr_fail"}

\* one iteration of `for page in reader.pages` (lines 29-37)
PageStep(o) ==
    /\ x_pc = "pages"
    /\ page <= Len(file.pages)
    /\ o \in PageOutcomes(file.pages[page])
    /\ IF o = "ok"
       THEN /\ x_text' = x_text \o
                    (IF file.pages[page] = "text"
                     THEN <<Chunk("native", page)>>
                     ELSE OcrChunks(Len(file.pages)))
            /\ page' = page + 1
            /\ UNCHANGED <<x_pc, tmp_exists, x_result>>
       ELSE /\ x_pc' = "done"
            /\ tmp_exists' = Unlink(tmp_exists)
            /\ x_result' = XRaised(Wrap(LibraryError(o)))
            /\ UNCHANGED <<x_text, page>>
    /\ UNCHANGED file
    /\ UNCHANGED <<evars, fvars, uvars>>

\* `return text` of line 38, through the `finally`
PagesDone ==
    /\ x_pc = "pages"
    /\ page > Len(file.pages)
    /\ x_pc' = "done"
    /\ tmp_exists' = Unlink(tmp_exists)
    /\ x_result' = XReturned(x_text)
    /\ UNCHANGED <<file, page, x_text>>
    /\ UNCHANGED <<evars, fvars, uvars>>

ExtractNext ==
    \/ \E f \in Files, o \in {"ok", "decode_fail", "parse_fail", "create_fail",
                               "write_fail", "open_fail"} : ProcessCall(f, o)
    \/ \E o \in {"ok", "extract_fail", "convert_fail", "ocr_fail"} : PageStep(o)
    \/ PagesDone

(* ---------------- Firestore: firebase_signup, save_to_firestore -------- *)
Users == 1..NumUsers
NoUserDoc == -1

\* firestore.Increment(1) applied to doc_count (main.py line 124)
Increment(c) == c + 1

\* outcomes of the Firestore calls of save_to_firestore: all succeed, or
\* get_firestore_db / doc_ref.set / user_ref.update raises
SaveOutcomes == {"ok", "db_fail", "set_fail", "update_fail"}

\* faulty variant: the id is returned as soon as the document is written
SaveReturn_IgnoresUpdate(setDone, updDone, id) == IF setDone THEN id ELSE 0

\* the value save_to_firestore returns: line 126 is reached only when
\* neither set nor update raised; the except clause returns None (0)
SaveReturn(setDone, updDone, id) == IF setDone /\ updDone THEN id ELSE 0

\* save_to_firestore(user_id, ...) on the database (us, docs, id): the new
\* database and the return value. update() raises NotFound when the user
\* document is absent.
SaveToFirestore(us, docs, id, u, o) ==
    LET dbDone == o # "db_fail"
        setDone == o \in {"ok", "update_fail"}
        updDone == o = "ok" /\ us[u] # NoUserDoc
    IN  [users |-> IF updDone THEN [us EXCEPT ![u] = Increment(@)] ELSE us,
         documents |-> IF setDone THEN [docs EXCEPT ![u] = @ \cup {id}]
                       ELSE docs,
         next_id |-> IF dbDone THEN id + 1 ELSE id,
         ret |-> SaveReturn(setDone, updDone, id)]

\* firebase_signup: users/{uid} is created with doc_count 0 (auth.py 56-66)
SignupDoc(us, u) == [us EXCEPT ![u] = 0]

Signup(u) ==
    /\ users[u] = NoUserDoc
    /\ users' = SignupDoc(users, u)
    /\ UNCHANGED <<documents, next_id, s_calls, s_user, s_ret>>
    /\ UNCHANGED <<evars, xvars, uvars>>

SaveCall(u, o) ==
    /\ s_calls < MaxSaves
    /\ LET r == SaveToFirestore(users, documents, next_id, u, o)
       IN  /\ users' = r.users
           /\ documents' = r.documents
           /\ next_id' = r.next_id
           /\ s_ret' = r.ret
    /\ s_calls' = s_calls + 1
    /\ s_user' = u
    /\ UNCHANGED <<evars, xvars, uvars>>

SaveNext ==
    \/ \E u \in Users : Signup(u)
    \/ \E u \in Users, o \in SaveOutcomes : SaveCall(u, o)

(* ---------------- the page: main(), logout_user() ------------------------ *)
\* uploads: file f extracts to text f; the last one cannot be extracted
Uploads == 1..(NumTexts + 1)
ExtractOk(f) == f \in Texts
OriginalText(f) == f

\* what enhance_text_with_ollama can hand to line 254: a content, or an error
EnhanceResults == {Returned(c) : c \in Contents}
                      \cup {Raised("requests.RequestException", MAX_RETRIES)}

\* is_authenticated() (auth.py 101-103)
IsAuthenticated(u) == u # 0

\* lines 235-304 of one run: are the enhanced view and the download button
\* rendered: `if 'enhanced_text' in st.session_state`, inside the try of an
\* uploaded file of an authenticated user
ShowsEnhanced(u, f, e) ==
    IsAuthenticated(u) /\ f # 0 /\ ExtractOk(f) /\ e # 0

\* Register form (main.py 207-216, auth.py 42-68)
Register(u) ==
    /\ ~IsAuthenticated(session_user)
    /\ users[u] = NoUserDoc
    /\ users' = SignupDoc(users, u)
    /\ session_user' = u
    /\ last_event' = "register"
    /\ offered' = FALSE
    /\ UNCHANGED <<enhanced_text, enhanced_from, uploaded_file>>
    /\ UNCHANGED <<documents, next_id, s_calls, s_user, s_ret>>
    /\ UNCHANGED <<evars, xvars>>

\* Login form (main.py 191-199, auth.py 77-99): fails without a user document
Login(u) ==
    /\ ~IsAuthenticated(session_user)
    /\ session_user' = IF users[u] # NoUserDoc THEN u ELSE session_user
    /\ last_event' = "login"
    /\ offered' = ShowsEnhanced(session_user', uploaded_file, enhanced_text)
    /\ UNCHANGED <<enhanced_text, enhanced_from, uploaded_file>>
    /\ UNCHANGED <<evars, xvars, fvars>>

\* a file is put into (f > 0) or removed from (f = 0) the uploader
Upload(f) ==
    /\ IsAuthenticated(session_user)
    /\ f # uploaded_file
    /\ uploaded_file' = f
    /\ last_event' = "upload"
    /\ offered' = ShowsEnhanced(session_user, f, enhanced_text)
    /\ UNCHANGED <<session_user, enhanced_text, enhanced_from>>
    /\ UNCHANGED <<evars, xvars, fvars>>

\* the Enhance button (main.py 249-277) with the outcome r of
\* enhance_text_with_ollama and the outcome o of the Firestore calls
ClickEnhance(r, o) ==
    /\ IsAuthenticated(session_user)
    /\ uploaded_file # 0
    /\ ExtractOk(uploaded_file)
    /\ last_event' = "enhance"
    /\ IF r.kind = "return" /\ r.value # OriginalText(uploaded_file)
       THEN /\ s_calls < MaxSaves
            /\ enhanced_text' = r.value
            /\ enhanced_from' = uploaded_file
            /\ LET s == SaveToFirestore(users, documents, next_id,
                                        session_user, o)
               IN  /\ users' = s.users
                   /\ documents' = s.documents
                   /\ next_id' = s.next_id
                   /\ s_ret' = s.ret
            /\ s_calls' = s_calls + 1
            /\ s_user' = session_user
       ELSE /\ o = "ok"
            /\ UNCHANGED <<enhanced_text, enhanced_from, fvars>>
    /\ offered' = ShowsEnhanced(session_user, uploaded_file, enhanced_text')
    /\ UNCHANGED <<session_user, uploaded_file>>
    /\ UNCHANGED <<evars, xvars>>

\* the Logout button (main.py 173-175) and logout_user (auth.py 109-117);
\* the uploader is not rendered on the login page and loses its file
ClickLogout ==
    /\ IsAuthenticated(session_user)
    /\ session_user' = 0
    /\ enhanced_text' = 0
    /\ enhanced_from' = 0
    /\ uploaded_file' = 0
    /\ offered' = FALSE
    /\ last_event' = "logout"
    /\ UNCHANGED <<evars, xvars, fvars>>

SessionNext ==
    \/ \E u \in Users : Register(u)
    \/ \E u \in Users : Login(u)
    \/ \E f \in Uploads \cup {0} : Upload(f)
    \/ \E r \in EnhanceResults, o \in SaveOutcomes : ClickEnhance(r, o)
    \/ ClickLogout

(* ---------------- initial state and specifications ---------------------- *)
Init ==
    /\ pc = "idle"
    /\ text = 0
    /\ attempt = 0
    /\ timeout = INITIAL_TIMEOUT
    /\ log = <<>>
    /\ result = NoResult
    /\ x_pc = "idle"
    /\ file = NoFile
    /\ page = 1
    /\ x_text = <<>>
    /\ tmp_exists = FALSE
    /\ x_result = XNoResult
    /\ users = [u \in 1..NumUsers |-> -1]
    /\ documents = [u \in 1..NumUsers |-> {}]
    /\ next_id = 1
    /\ s_calls = 0
    /\ s_user = 0
    /\ s_ret = 0
    /\ session_user = 0
    /\ enhanced_text = 0
    /\ enhanced_from = 0
    /\ uploaded_file = 0
    /\ offered = FALSE
    /\ last_event = "start"

\* one call of enhance_text_with_ollama against an arbitrary backend
Next == EnhanceNext
Spec == Init /\ [][Next]_vars

\* one call of process_document on an arbitrary file
NextExtract == ExtractNext
SpecExtract == Init /\ [][NextExtract]_vars

\* sign-ups and calls of save_to_firestore
NextSave == SaveNext
SpecSave == Init /\ [][NextSave]_vars

\* one browser session: register, login, upload, enhance, logout
NextSession == SessionNext
SpecSession == Init /\ [][NextSession]_vars

(* ======================= claims: enhancement client ===================== *)
Requests(l) == SelectSeq(l, LAMBDA e : e.ev = "request")
Probes(l) == SelectSeq(l, LAMBDA e : e.ev = "probe")
Starts(l) == SelectSeq(l, LAMBDA e : e.ev = "start")
RetrySleeps(l) == SelectSeq(l, LAMBDA e : e.ev = "sleep_retry")
Outs(l) == [i \in 1..Len(l) |-> l[i].out]
Timeouts(l) == [i \in 1..Len(l) |-> l[i].t]

\* C1: a call makes at most 3 attempts, and the request timeouts are 30,
\* then twice the previous one: a prefix of 30, 60, 120.
C1_RetryBoundAndTimeouts ==
    LET r == Requests(log)
    IN  /\ Len(r) <= 3
        /\ attempt + 1 <= 3
        /\ \A k \in 1..Len(r) :
              /\ r[k].t = IF k = 1 THEN 30 ELSE 2 * r[k - 1].t
              /\ r[k].t \in {30, 60, 120}

C1_Witness ==
    /\ pc = "done"
    /\ Timeouts(Requests(log)) = <<30, 60, 120>>

\* C2 (as claimed): with every status probe failing and the restart launched,
\* the call ends by raising an error to the caller, after one probe, one
\* restart and one re-probe, and without any generation request.
C2_UnreachableScenario ==
    /\ pc = "done"
    /\ Len(Probes(log)) > 0
    /\ \A i \in 1..Len(log) :
          /\ log[i].ev = "probe" => log[i].out = "exc"
          /\ log[i].ev = "start" => log[i].out = "started"

C2_UnreachableRaises ==
    C2_UnreachableScenario =>
        /\ result.kind = "raise"
        /\ Len(Probes(log)) = 2
        /\ Len(Starts(log)) = 1
        /\ Len(Requests(log)) = 0

\* C3: when the request fails with a transport error on attempts 1 and 2 and
\* succeeds on attempt 3, the call returns the third reply's content, exactly
\* two retry sleeps were made, and each is directly followed by a new probe.
C3_Scenario ==
    /\ pc = "done"
    /\ Outs(Requests(log)) = <<"transport", "transport", "ok">>

C3_ThirdAttemptSucceeds ==
    C3_Scenario =>
        /\ result = Returned(Requests(log)[3].content)
        /\ Len(RetrySleeps(log)) = 2
        /\ Timeouts(Requests(log)) = <<30, 60, 120>>
        /\ \A i \in 1..Len(log) :
              log[i].ev = "sleep_retry" =>
                  /\ i > 1 /\ log[i - 1].ev = "request"
                  /\ i < Len(log) /\ log[i + 1].ev = "probe"

C3_Witness ==
    /\ C3_Scenario
    /\ \A i \in 1..Len(log) : log[i].ev = "probe" => log[i].out = "200"
    /\ result.kind = "return"
    /\ result.value # text

\* C4 (as claimed): the call raises exactly when the third attempt's request
\* ends in a transport failure, and then raises that request's own error;
\* every other finished call returns a text.
C4_RaisesOnlyOnFinalTransportFailure ==
    pc = "done" =>
        LET r == Requests(log)
            finalTransport == Len(r) = 3 /\ r[3].out = "transport"
        IN  /\ result.kind = "raise" <=> finalTransport
            /\ result.kind = "raise" => result.origin = 3
            /\ result.kind # "raise" =>
                  /\ result.kind = "return"
                  /\ result.value \in Contents

\* position i of the history is a failure of an attempt that is not a
\* transport failure (network, timeout, non-2xx) of the generation request
NonTransportFailure(l, i) ==
    \/ l[i].ev = "request" /\ l[i].out \in {"bad_json", "other"}
    \/ l[i].ev = "start" /\ l[i].out = "failed"
    \/ l[i].ev = "probe" /\ l[i].out = "non200"
    \/ l[i].ev = "probe" /\ l[i].out = "exc"
          /\ i > 1 /\ l[i - 1].ev = "sleep_restart"

\* C5 (as claimed): only a transport failure of the request is followed by a
\* retry sleep; a failure of any other kind ends the call at once with the
\* input text returned: no sleep, no timeout change, no further probe or
\* request.
C5_OnlyTransportRetried ==
    \A i \in 1..Len(log) :
        /\ log[i].ev = "sleep_retry" =>
              /\ i > 1 /\ log[i - 1].ev = "request"
              /\ log[i - 1].out = "transport"
        /\ NonTransportFailure(log, i) =>
              /\ pc = "done"
              /\ result = Returned(text)
              /\ Len(log) = i + 1
              /\ log[i + 1].ev = "st_error"
              /\ log[i].ev = "request" => timeout = log[i].t

\* C9 (as claimed): a retry sleep lasts half of the timeout the next attempt
\* is about to use.
C9_SleepHalfOfNextTimeout ==
    (Len(log) > 0 /\ log[Len(log)].ev = "sleep_retry") =>
        2 * log[Len(log)].t = timeout

\* C9 (amended): a retry sleep lasts half of the timeout of the attempt that
\* just failed, i.e. a quarter of the timeout the next attempt uses.
C9_SleepHalfOfFailedTimeout ==
    \A i \in 1..Len(log) :
        log[i].ev = "sleep_retry" =>
            /\ i > 1 /\ log[i - 1].ev = "request"
            /\ 2 * log[i].t = log[i - 1].t
            /\ (i = Len(log) => 4 * log[i].t = timeout)

C9_Witness ==
    /\ Timeouts(RetrySleeps(log)) = <<15, 30>>
    /\ timeout = 120

(* ======================= claims: text extractor ========================= *)
\* the class of the error that parse and OCR failures leave with (line 46)
ExtractionFailureClass == "ValueError"

\* C6 (as claimed): after process_document has returned or raised on a PDF,
\* its temporary file does not exist, on every exit path.
C6_TempFileRemoved ==
    (x_pc = "done" /\ Format(file.name) = "pdf") => ~tmp_exists

\* C7 (as claimed): a name with none of the three suffixes fails with an
\* error whose kind differs from the kind of parse/OCR failures.
C7_UnsupportedIsDistinctKind ==
    (x_pc = "done" /\ Format(file.name) = "unsupported") =>
        /\ x_result.kind = "raise"
        /\ x_result.cls # ExtractionFailureClass

(* ======================= claims: persistence ============================ *)
\* C8: a call of save_to_firestore that returns an id has added exactly one
\* document (that id) under the user and raised the user's doc_count by
\* exactly 1, leaving every other user alone; a call that returns None has
\* left every doc_count as it was.
C8_SaveIncrementsByOne ==
    [][s_calls' = s_calls + 1 =>
          LET u == s_user'
          IN  /\ s_ret' # 0 =>
                    /\ users[u] # NoUserDoc
                    /\ users'[u] = users[u] + 1
                    /\ s_ret' \notin documents[u]
                    /\ documents'[u] = documents[u] \cup {s_ret'}
                    /\ \A v \in Users \ {u} :
                          /\ users'[v] = users[v]
                          /\ documents'[v] = documents[v]
              /\ s_ret' = 0 => users' = users]_vars

C8_Witness ==
    /\ s_calls = 3
    /\ s_ret # 0
    /\ users[s_user] = 2
    /\ Cardinality(documents[s_user]) = 3

(* ======================= claims: session ================================ *)
\* C10 (as claimed): whenever the enhanced view and the download are offered,
\* enhanced_text was made from the file now in the uploader; and right after
\* a logout the session holds no enhanced_text.
C10_EnhancedViewIsCurrent ==
    /\ offered => (enhanced_text # 0 /\ enhanced_from = uploaded_file)
    /\ last_event = "logout" => enhanced_text = 0
====
